---------------------------- MODULE Spec2Model ----------------------------
(***************************************************************************)
(* Model of the notebook autograder in src/.grading/test_functions.py.     *)
(* run_autograder (src/.grading/run_autograder.py) runs it on the         *)
(* notebooks of src/.grading/assignment_config.py.                         *)
(*                                                                         *)
(* A Python str is modelled as a sequence of one-character strings, so     *)
(* that strip(), lower(), re.sub(r'\s+', ' ', .), `in` and slicing are     *)
(* computed character by character as the interpreter computes them.       *)
(* A raised exception is a value Raise(type, msg), msg being str(e).        *)
(***************************************************************************)
EXTENDS Integers, Sequences, FiniteSets, TLC

VARIABLES
    call,          \* the call being run: the function's name and its arguments
    ret,           \* what the call returned or raised (NoRet while it runs)
    pc,            \* position of the call in the function's body
    nb,            \* test_notebook: how execute_notebook ended (line 278):
                   \* Return(cells), the value bound to nb, or what it raised
    results,       \* test_notebook: the results dict (lines 267-274)
    qi,            \* test_notebook: position of the question loop (line 282)
    commit_count,  \* analyze_commits: commit_count (line 214)
    messages,      \* analyze_commits: messages (line 224)
    run            \* run_autograder (run_autograder.py): its locals, what
                   \* it printed and wrote, and how the process ended

vars == <<call, ret, pc, nb, results, qi, commit_count, messages, run>>

---------------------------------------------------------------------------
(* Bounds of the model.                                                    *)

MaxTextLen == 4      \* longest text drawn for the matcher
MaxCells == 2        \* most cells in a notebook
MaxQuestions == 2    \* most questions in a configuration
MaxCommits == 3      \* most commits in a repository

---------------------------------------------------------------------------
(* Python values.                                                          *)

NoRet == [kind |-> "none"]
Return(v) == [kind |-> "return", value |-> v]
Raise(type, msg) == [kind |-> "raise", exc |-> type, msg |-> msg]

\* cells[i] with i out of range, and d[key] with the key absent; msg is str(e).
IndexError == Raise("IndexError", "list index out of range")
KeyError(key) == Raise("KeyError", key)

\* str.isspace() characters that occur in the model's texts.
Whitespace == {" ", "\n", "\t"}

UpperLetters == <<"A","B","C","D","E","F","G","H","I","J","K","L","M",
                  "N","O","P","Q","R","S","T","U","V","W","X","Y","Z">>
LowerLetters == <<"a","b","c","d","e","f","g","h","i","j","k","l","m",
                  "n","o","p","q","r","s","t","u","v","w","x","y","z">>

\* str.lower() on one character.
LowerChar(c) ==
    IF \E i \in 1..26 : UpperLetters[i] = c
    THEN LowerLetters[CHOOSE i \in 1..26 : UpperLetters[i] = c]
    ELSE c

\* str.lower()
lower(s) == [i \in 1..Len(s) |-> LowerChar(s[i])]

RECURSIVE lstrip(_)
lstrip(s) ==
    IF s # <<>> /\ Head(s) \in Whitespace THEN lstrip(Tail(s)) ELSE s

RECURSIVE rstrip(_)
rstrip(s) ==
    IF s # <<>> /\ s[Len(s)] \in Whitespace
    THEN rstrip(SubSeq(s, 1, Len(s) - 1))
    ELSE s

\* str.strip()
strip(s) == rstrip(lstrip(s))

\* re.sub(r'\s+', ' ', s): every maximal run of whitespace becomes one space.
RECURSIVE re_sub_ws(_)
re_sub_ws(s) ==
    IF s = <<>> THEN <<>>
    ELSE IF Head(s) \in Whitespace
         THEN <<" ">> \o re_sub_ws(lstrip(Tail(s)))
         ELSE <<Head(s)>> \o re_sub_ws(Tail(s))

\* sub in s
Contains(sub, s) ==
    \E i \in 1..(Len(s) - Len(sub) + 1) : SubSeq(s, i, i + Len(sub) - 1) = sub

\* s[:n]
Slice(s, n) == SubSeq(s, 1, IF Len(s) < n THEN Len(s) ELSE n)

\* ''.join(parts)
RECURSIVE join(_)
join(parts) ==
    IF parts = <<>> THEN <<>> ELSE Head(parts) \o join(Tail(parts))

\* n copies of the character c
RECURSIVE Rep(_, _)
Rep(c, n) == IF n = 0 THEN <<>> ELSE <<c>> \o Rep(c, n - 1)

\* All sequences over S of length at most n.
SeqUpTo(S, n) == UNION {[1..k -> S] : k \in 0..n}

---------------------------------------------------------------------------
(* check_output_matches (lines 88-106).                                    *)

\* check_output_matches without the lower() of line 102.
check_output_matches_no_lower(actual, expected, flexible) ==
    IF flexible
    THEN re_sub_ws(strip(actual)) = re_sub_ws(strip(expected))
    ELSE strip(actual) = strip(expected)

check_output_matches(actual, expected, flexible) ==
    IF flexible
    THEN LET actual_normalized == re_sub_ws(strip(lower(actual)))
             expected_normalized == re_sub_ws(strip(lower(expected)))
         IN  actual_normalized = expected_normalized
    ELSE strip(actual) = strip(expected)

---------------------------------------------------------------------------
(* Notebooks: nb.cells is a sequence of cells; Python indexes it from 0,   *)
(* and a negative index counts from the end.                               *)

\* i is an index cells[i] accepts (anything else raises IndexError).
Indexable(cells, i) == -Len(cells) <= i /\ i < Len(cells)

\* cells[i]
Item(cells, i) == IF i >= 0 THEN cells[i + 1] ELSE cells[Len(cells) + i + 1]

CodeCell(src, outs) == [cell_type |-> "code", source |-> src, outputs |-> outs]
MarkdownCell(src) == [cell_type |-> "markdown", source |-> src, outputs |-> <<>>]

\* An output of a code cell: a stream carries .text, the others carry .data,
\* which holds 'text/plain' or does not.
Stream(t) ==
    [output_type |-> "stream", text |-> t, has_plain |-> FALSE, plain |-> <<>>]
ExecuteResult(t) ==
    [output_type |-> "execute_result", text |-> <<>>, has_plain |-> TRUE,
     plain |-> t]
DisplayData(t) ==
    [output_type |-> "display_data", text |-> <<>>, has_plain |-> TRUE,
     plain |-> t]
DisplayImage ==
    [output_type |-> "display_data", text |-> <<>>, has_plain |-> FALSE,
     plain |-> <<>>]
ErrorOutput ==
    [output_type |-> "error", text |-> <<>>, has_plain |-> FALSE,
     plain |-> <<>>]

\* output.data.get('text/plain', '')
PlainOf(output) == IF output.has_plain THEN output.plain ELSE <<>>

\* The loop of lines 59-66: the texts appended to output_text.
RECURSIVE OutputTexts(_)
OutputTexts(outputs) ==
    IF outputs = <<>> THEN <<>>
    ELSE LET output == Head(outputs)
             rest == OutputTexts(Tail(outputs))
         IN  IF output.output_type = "stream"
             THEN <<output.text>> \o rest
             ELSE IF output.output_type = "execute_result"
             THEN <<PlainOf(output)>> \o rest
             ELSE IF output.output_type = "display_data"
             THEN <<PlainOf(output)>> \o rest
             ELSE rest

\* get_cell_output (lines 40-68)
get_cell_output(cells, cell_index) ==
    IF cell_index >= Len(cells) THEN Return(<<>>)
    ELSE IF ~Indexable(cells, cell_index) THEN IndexError
    ELSE LET cell == Item(cells, cell_index)
         IN  IF cell.cell_type # "code" THEN Return(<<>>)
             ELSE Return(strip(join(OutputTexts(cell.outputs))))

\* get_cell_source (lines 71-85)
get_cell_source(cells, cell_index) ==
    IF cell_index >= Len(cells) THEN Return(<<>>)
    ELSE IF ~Indexable(cells, cell_index) THEN IndexError
    ELSE Return(Item(cells, cell_index).source)

---------------------------------------------------------------------------
(* Answer checkers.                                                        *)

Ellipsis == <<".", ".", ".">>
TripleDouble == <<"\"", "\"", "\"">>
TripleSingle == <<"'", "'", "'">>

\* check_code_contains_ellipsis (lines 109-121)
check_code_contains_ellipsis(source) ==
    /\ Contains(Ellipsis, source)
    /\ ~(Contains(TripleDouble, source) \/ Contains(TripleSingle, source))

\* '< your answer >'
Placeholder ==
    <<"<"," ","y","o","u","r"," ","a","n","s","w","e","r"," ",">">>

\* The default of min_length.
DefaultMinLength == 20

\* check_essay_answered (lines 124-154): the tuple (answered, answer_text).
check_essay_answered(cells, cell_index, min_length) ==
    IF cell_index >= Len(cells) THEN Return(<<FALSE, <<>>>>)
    ELSE IF ~Indexable(cells, cell_index) THEN IndexError
    ELSE LET cell == Item(cells, cell_index)
             answer == strip(cell.source)
         IN  IF cell.cell_type # "markdown" THEN Return(<<FALSE, <<>>>>)
             ELSE IF Contains(Placeholder, lower(answer))
             THEN Return(<<FALSE, answer>>)
             ELSE IF Len(answer) < min_length THEN Return(<<FALSE, answer>>)
             ELSE Return(<<TRUE, answer>>)


---------------------------------------------------------------------------
(* run_basic_linting (lines 157-191).                                      *)

Lowers == {LowerLetters[i] : i \in 1..26}
Uppers == {UpperLetters[i] : i \in 1..26}
Digits == {"0", "1", "2", "3", "4", "5", "6", "7", "8", "9"}
\* [a-zA-Z0-9]
AlphaNum == Lowers \cup Uppers \cup Digits
\* \w, the characters \b tells apart from the others
WordChars == AlphaNum \cup {"_"}

\* source.split('\n')
RECURSIVE SplitLines(_)
SplitLines(s) ==
    IF \E i \in 1..Len(s) : s[i] = "\n"
    THEN LET i == CHOOSE i \in 1..Len(s) :
                      s[i] = "\n" /\ \A j \in 1..(i - 1) : s[j] # "\n"
         IN  <<SubSeq(s, 1, i - 1)>> \o SplitLines(SubSeq(s, i + 1, Len(s)))
    ELSE <<s>>

\* line.replace('==', '')
RECURSIVE RemoveEqEq(_)
RemoveEqEq(s) ==
    IF Len(s) < 2 THEN s
    ELSE IF s[1] = "=" /\ s[2] = "=" THEN RemoveEqEq(SubSeq(s, 3, Len(s)))
         ELSE <<Head(s)>> \o RemoveEqEq(Tail(s))

\* re.search(r'[a-zA-Z0-9]' + op + r'[a-zA-Z0-9]', line)
TightOperator(op, line) ==
    \E j \in 1..(Len(line) - 2) :
        line[j] \in AlphaNum /\ line[j + 1] = op /\ line[j + 2] \in AlphaNum

\* re.search(r'\b([a-z]+[A-Z][a-zA-Z]*)\s*=', line)
MixedCaseAssignment(line) ==
    \E p \in 1..Len(line) :
        /\ line[p] \in Lowers
        /\ (p = 1 \/ line[p - 1] \notin WordChars)
        /\ \E u \in (p + 1)..Len(line) :
            /\ line[u] \in Uppers
            /\ \A j \in p..(u - 1) : line[j] \in Lowers
            /\ \E e \in (u + 1)..Len(line) :
                /\ line[e] = "="
                /\ \E t \in u..(e - 1) :
                    /\ \A j \in (u + 1)..t : line[j] \in Lowers \cup Uppers
                    /\ \A j \in (t + 1)..(e - 1) : line[j] \in Whitespace

\* A suggestion is the message's kind and the number of the line it names.
Suggestion(kind, n) == [msg |-> kind, arg |-> <<>>, line |-> n]

\* The suggestions one line adds (lines 172-189).
LineSuggestions(line, n) ==
    IF strip(line) = <<>> \/ (strip(line) # <<>> /\ Head(strip(line)) = "#")
    THEN <<>>
    ELSE (IF Len(line) > 100
          THEN <<Suggestion("Line is very long", n)>> ELSE <<>>)
         \o
         (IF /\ TightOperator("+", line) \/ TightOperator("=", RemoveEqEq(line))
             /\ ~Contains(<<"=", "=">>, line)
          THEN <<Suggestion("Consider adding spaces around operators", n)>>
          ELSE <<>>)
         \o
         (IF MixedCaseAssignment(line)
          THEN <<Suggestion("Consider using snake_case", n)>> ELSE <<>>)

RECURSIVE AllSuggestions(_, _)
AllSuggestions(lines, n) ==
    IF lines = <<>> THEN <<>>
    ELSE LineSuggestions(Head(lines), n) \o AllSuggestions(Tail(lines), n + 1)

run_basic_linting(source) == Slice(AllSuggestions(SplitLines(source), 1), 3)

---------------------------------------------------------------------------
(* The cells notebooks are drawn from.                                     *)

PrintEllipsis == <<"p","r","i","n","t","(",".",".",".",")">>
PrintDone == <<"p","r","i","n","t","(","1",")">>
\* A docstring holding the three dots
DocEllipsis == TripleDouble \o Ellipsis \o TripleDouble
\* A single-quoted docstring, then print(...) on the next line
DocThenEllipsis ==
    TripleSingle \o <<"x">> \o TripleSingle \o <<"\n">> \o PrintEllipsis

\* < Your Answer >
MdPlaceholder ==
    <<"<"," ","Y","o","u","r"," ","A","n","s","w","e","r"," ",">">>
MdProse == Rep("a", DefaultMinLength)
MdShortPadded == <<" ", " ">> \o Rep("a", DefaultMinLength - 1) \o <<"\n">>
MdPlaceholderKept == MdProse \o <<" ">> \o MdPlaceholder

OutAB == <<"a", " ", "b">>

CodeRight == CodeCell(PrintDone, <<Stream(<<"A", " ", " ", "b", "\n">>)>>)
CodeWrong == CodeCell(PrintDone, <<Stream(<<"a", " ", "b", "x", "\n">>)>>)
CodeEllipsisRight == CodeCell(PrintEllipsis, <<Stream(OutAB)>>)
CodeDocRight == CodeCell(DocThenEllipsis, <<Stream(OutAB)>>)
CodeMixed ==
    CodeCell(DocEllipsis,
             <<Stream(<<" ", "a">>), ErrorOutput, DisplayImage,
               ExecuteResult(<<" ">>), DisplayData(<<"b", " ">>)>>)
CodeLong == CodeCell(MdProse, <<>>)
MdAnswered == MarkdownCell(MdProse)
MdUnanswered == MarkdownCell(MdPlaceholder)
MdShort == MarkdownCell(MdShortPadded)
MdKept == MarkdownCell(MdPlaceholderKept)

CellPool ==
    { CodeRight, CodeWrong, CodeEllipsisRight, CodeDocRight, CodeMixed,
      CodeLong, MdAnswered, MdUnanswered, MdShort, MdKept }

Notebooks == SeqUpTo(CellPool, MaxCells)

\* Indexes in range, too large, negative in Python's range and below it.
CellIndexes == (0 - MaxCells - 1)..(MaxCells + 1)

\* Nothing has run yet.
InitIdle ==
    /\ ret = NoRet
    /\ pc = "call"
    /\ nb = NoRet
    /\ results = <<>>
    /\ qi = 0
    /\ commit_count = 0
    /\ messages = <<>>
    /\ run = NoRet

---------------------------------------------------------------------------
(* Matcher calls.                                                          *)

\* Characters of the texts drawn for the matcher: a letter in both cases,
\* another letter, and two kinds of whitespace.
MatchChars == {"a", "A", "b", " ", "\n"}

\* Expected outputs as a configuration would list them.
ExpectedTexts ==
    { <<>>, <<"a">>, <<"A">>, <<"b">>, <<"a","b">>, <<"a"," ","b">>,
      <<"A"," ","B">>, <<"a"," "," ","b">>, <<" ","a","\n">>,
      <<"a","\n","b">>, <<"a"," ","a">>, <<"\n">> }

MatchCalls ==
    [fn : {"check_output_matches"}, actual : SeqUpTo(MatchChars, MaxTextLen),
     expected : ExpectedTexts, flexible : BOOLEAN]

InitMatch == call \in MatchCalls /\ InitIdle

CallCheckOutputMatches ==
    /\ pc = "call"
    /\ call.fn = "check_output_matches"
    /\ ret' = Return(check_output_matches(call.actual, call.expected,
                                          call.flexible))
    /\ pc' = "done"
    /\ UNCHANGED <<call, nb, results, qi, commit_count, messages, run>>

NextMatch == CallCheckOutputMatches

SpecMatch == InitMatch /\ [][NextMatch]_vars

---------------------------------------------------------------------------
(* Cell Extractor calls.                                                   *)

CellCalls ==
    [fn : {"get_cell_source", "get_cell_output"}, cells : Notebooks,
     cell_index : CellIndexes]

InitCells == call \in CellCalls /\ InitIdle

CallGetCellSource ==
    /\ pc = "call"
    /\ call.fn = "get_cell_source"
    /\ ret' = get_cell_source(call.cells, call.cell_index)
    /\ pc' = "done"
    /\ UNCHANGED <<call, nb, results, qi, commit_count, messages, run>>

CallGetCellOutput ==
    /\ pc = "call"
    /\ call.fn = "get_cell_output"
    /\ ret' = get_cell_output(call.cells, call.cell_index)
    /\ pc' = "done"
    /\ UNCHANGED <<call, nb, results, qi, commit_count, messages, run>>

NextCells == CallGetCellSource \/ CallGetCellOutput

SpecCells == InitCells /\ [][NextCells]_vars

---------------------------------------------------------------------------
(* Essay check calls.                                                      *)

EssayCalls ==
    [fn : {"check_essay_answered"}, cells : Notebooks,
     cell_index : CellIndexes,
     min_length : {DefaultMinLength, DefaultMinLength + 1}]

InitEssay == call \in EssayCalls /\ InitIdle

CallCheckEssayAnswered ==
    /\ pc = "call"
    /\ call.fn = "check_essay_answered"
    /\ ret' = check_essay_answered(call.cells, call.cell_index,
                                   call.min_length)
    /\ pc' = "done"
    /\ UNCHANGED <<call, nb, results, qi, commit_count, messages, run>>

NextEssay == CallCheckEssayAnswered

SpecEssay == InitEssay /\ [][NextEssay]_vars

---------------------------------------------------------------------------
(* test_notebook (lines 256-345).                                          *)

\* A question's configuration: the keys the dict holds and their values
\* (the value of a key the dict lacks is not read).  expected_outputs is a
\* str or a list of str.
Question(keys, type, cell_index, expected_outputs, points) ==
    [keys |-> keys, type |-> type, cell_index |-> cell_index,
     expected_outputs |-> expected_outputs, points |-> points]

AsList(l) == [is_str |-> FALSE, str |-> <<>>, list |-> l]
AsStr(t) == [is_str |-> TRUE, str |-> t, list |-> <<>>]

AllKeys == {"type", "cell_index", "expected_outputs", "points"}

\* The cells a graded notebook is drawn from.
SourceLinted == <<"a","B","=","1","+","1">>
CodeWrongLinted ==
    CodeCell(SourceLinted, <<Stream(<<"a", " ", "b", "x", "\n">>)>>)

GradedCells ==
    { CodeRight, CodeWrongLinted, CodeEllipsisRight, CodeDocRight,
      MdAnswered, MdUnanswered }

GradedNotebooks == SeqUpTo(GradedCells, MaxCells)

QuestionPool ==
    { Question(AllKeys, "code", 0, AsList(<<OutAB>>), 2),
      Question(AllKeys, "code", 1, AsList(<<<<"x">>, OutAB>>), 3),
      Question(AllKeys, "code", 0, AsStr(OutAB), 1),
      Question(AllKeys \ {"expected_outputs", "points"}, "code", 0,
               AsList(<<>>), 1),
      Question(AllKeys \ {"cell_index"}, "code", 0, AsList(<<OutAB>>), 2),
      Question(AllKeys, "code", 0 - MaxCells - 1, AsList(<<OutAB>>), 1),
      Question(AllKeys \ {"expected_outputs"}, "essay", 0, AsList(<<>>), 2),
      Question(AllKeys \ {"expected_outputs"}, "essay", -1, AsList(<<>>), 1),
      Question(AllKeys \ {"expected_outputs"}, "survey", 0, AsList(<<>>), 1) }

\* test_config['questions'] in configuration order; a question's id is its
\* position.
Configs == SeqUpTo(QuestionPool, MaxQuestions)

\* What makes execute_notebook raise (lines 28-37).
ExecutionFailures == {"cell error", "environment error", "timeout"}

Feedback(msg, arg) == [msg |-> msg, arg |-> arg, line |-> 0]

\* question_result (lines 283-288)
QuestionResult(passed, score, max_score, feedback) ==
    [passed |-> passed, score |-> score, max_score |-> max_score,
     feedback |-> feedback]

\* question_config.get('points', 1)
PointsOf(q) == IF "points" \in q.keys THEN q.points ELSE 1

\* question_config.get('expected_outputs', []), a str wrapped in a list
\* (lines 304-306)
ExpectedOutputsOf(q) ==
    IF "expected_outputs" \notin q.keys THEN <<>>
    ELSE IF q.expected_outputs.is_str THEN <<q.expected_outputs.str>>
    ELSE q.expected_outputs.list

\* The loop of lines 308-312.
Matched(output, expected_outputs) ==
    \E i \in 1..Len(expected_outputs) :
        check_output_matches(output, expected_outputs[i], TRUE)

\* Lines 323-326.
LintFeedback(source) ==
    LET linting_suggestions == run_basic_linting(source)
    IN  IF linting_suggestions # <<>>
        THEN <<Feedback("Code quality suggestions:", <<>>)>>
             \o linting_suggestions
        ELSE <<>>

\* Lines 299-326: the cell holds no placeholder.
GradeOutput(cells, q, source) ==
    LET output == get_cell_output(cells, q.cell_index)
        expected_outputs == ExpectedOutputsOf(q)
    IN  IF output.kind = "raise" THEN output
        ELSE IF Matched(output.value, expected_outputs)
        THEN Return(QuestionResult(TRUE, PointsOf(q), PointsOf(q),
                 <<Feedback("Correct output", <<>>)>> \o LintFeedback(source)))
        ELSE IF expected_outputs = <<>>
        THEN IndexError
        ELSE Return(QuestionResult(FALSE, 0, PointsOf(q),
                 << Feedback("Expected output like: ",
                             Slice(expected_outputs[1], 50)),
                    Feedback("Got: ", Slice(output.value, 50)) >>
                 \o LintFeedback(source)))

\* GradeCode with the outputs compared before the placeholder is looked for.
GradeCode_CompareFirst(cells, q) ==
    IF "cell_index" \notin q.keys THEN KeyError("'cell_index'")
    ELSE LET source == get_cell_source(cells, q.cell_index)
             output == get_cell_output(cells, q.cell_index)
         IN  IF source.kind = "raise" THEN source
             ELSE IF Matched(output.value, ExpectedOutputsOf(q))
                     \/ ~check_code_contains_ellipsis(source.value)
             THEN GradeOutput(cells, q, source.value)
             ELSE Return(QuestionResult(FALSE, 0, PointsOf(q),
                      <<Feedback("Code still contains '...' placeholder",
                                 <<>>)>>))

\* Lines 292-326: a code question.
GradeCode(cells, q) ==
    IF "cell_index" \notin q.keys THEN KeyError("'cell_index'")
    ELSE LET source == get_cell_source(cells, q.cell_index)
         IN  IF source.kind = "raise" THEN source
             ELSE IF check_code_contains_ellipsis(source.value)
             THEN Return(QuestionResult(FALSE, 0, PointsOf(q),
                      <<Feedback("Code still contains '...' placeholder",
                                 <<>>)>>))
             ELSE GradeOutput(cells, q, source.value)

\* Lines 328-337: an essay question.
GradeEssay(cells, q) ==
    IF "cell_index" \notin q.keys THEN KeyError("'cell_index'")
    ELSE LET answered ==
                 check_essay_answered(cells, q.cell_index, DefaultMinLength)
         IN  IF answered.kind = "raise" THEN answered
             ELSE IF answered.value[1]
             THEN Return(QuestionResult(TRUE, PointsOf(q), PointsOf(q),
                      <<Feedback("Answer provided (requires manual review)",
                                 <<>>)>>))
             ELSE Return(QuestionResult(FALSE, 0, PointsOf(q),
                      <<Feedback("No answer provided or too short", <<>>)>>))

\* Lines 292-337: the question's result, or the exception grading it raises.
GradeQuestion(cells, q) ==
    IF "type" \notin q.keys THEN KeyError("'type'")
    ELSE IF q.type = "code" THEN GradeCode(cells, q)
    ELSE IF q.type = "essay" THEN GradeEssay(cells, q)
    ELSE Return(QuestionResult(FALSE, 0, PointsOf(q), <<>>))

\* Put that starts the map anew instead of adding to it.
Put_Replaces(questions, question_id, question_result) ==
    [k \in {question_id} |-> question_result]

\* results['questions'][question_id] = question_result
Put(questions, question_id, question_result) ==
    [k \in DOMAIN questions \cup {question_id} |->
        IF k = question_id THEN question_result ELSE questions[k]]

\* Lines 267-274.
InitialResults(name) ==
    [notebook |-> name, executed |-> FALSE, questions |-> <<>>,
     overall_score |-> 0, max_score |-> 0, errors |-> <<>>]

Init ==
    /\ call \in [fn : {"test_notebook"}, notebook_path : {"nb.ipynb"},
                  questions : Configs]
    /\ ret = NoRet
    /\ pc = "pending"
    /\ nb = NoRet
    /\ results = InitialResults(call.notebook_path)
    /\ qi = 0
    /\ commit_count = 0
    /\ messages = <<>>
    /\ run = NoRet

\* Execute with line 279 moved before the call of line 278.
Execute_MarksExecuted ==
    /\ pc = "pending"
    /\ pc' = "executing"
    /\ results' = [results EXCEPT !.executed = TRUE]
    /\ UNCHANGED <<call, ret, nb, qi, commit_count, messages, run>>

\* Line 278: execute_notebook is entered.
Execute ==
    /\ pc = "pending"
    /\ pc' = "executing"
    /\ UNCHANGED <<call, ret, nb, results, qi, commit_count, messages, run>>

\* Lines 278-279: execute_notebook returns the executed notebook.
ExecuteReturns ==
    /\ pc = "executing"
    /\ \E cells \in GradedNotebooks : nb' = Return(cells)
    /\ results' = [results EXCEPT !.executed = TRUE]
    /\ qi' = 1
    /\ pc' = "loop"
    /\ UNCHANGED <<call, ret, commit_count, messages, run>>

\* Lines 36-37 and 342-343: execute_notebook raises, the handler keeps the
\* message.
ExecuteRaises ==
    /\ pc = "executing"
    /\ \E failure \in ExecutionFailures :
           nb' = Raise("Exception",
                       "Error executing " \o call.notebook_path \o ": "
                           \o failure)
    /\ results' = [results EXCEPT !.errors = Append(@, nb'.msg)]
    /\ pc' = "return"
    /\ UNCHANGED <<call, ret, qi, commit_count, messages, run>>

\* Lines 282-340, and 342-343 when grading raises: one turn of the loop.
GradeNext ==
    /\ pc = "loop"
    /\ qi <= Len(call.questions)
    /\ LET question_config == call.questions[qi]
           counted == [results EXCEPT
                           !.max_score = @ + PointsOf(question_config)]
           graded == GradeQuestion(nb.value, question_config)
       IN  IF graded.kind = "raise"
           THEN /\ results' = [counted EXCEPT
                                   !.errors = Append(@, graded.msg)]
                /\ pc' = "return"
                /\ qi' = qi
           ELSE /\ results' = [counted EXCEPT
                                   !.questions = Put(@, qi, graded.value),
                                   !.overall_score = @ + graded.value.score]
                /\ pc' = pc
                /\ qi' = qi + 1
    /\ UNCHANGED <<call, ret, nb, commit_count, messages, run>>

\* Line 282: the loop is over.
LoopEnds ==
    /\ pc = "loop"
    /\ qi > Len(call.questions)
    /\ pc' = "return"
    /\ UNCHANGED <<call, ret, nb, results, qi, commit_count, messages, run>>

\* Line 345.
ReturnResults ==
    /\ pc = "return"
    /\ ret' = Return(results)
    /\ pc' = "done"
    /\ UNCHANGED <<call, nb, results, qi, commit_count, messages, run>>

Next ==
    \/ Execute
    \/ ExecuteReturns
    \/ ExecuteRaises
    \/ GradeNext
    \/ LoopEnds
    \/ ReturnResults

Spec == Init /\ [][Next]_vars

---------------------------------------------------------------------------
(* analyze_commits (lines 194-253).                                        *)

DigitChars == <<"0", "1", "2", "3", "4", "5", "6", "7", "8", "9">>

\* str(n) for n >= 0: what git rev-list --count prints.
RECURSIVE Decimal(_)
Decimal(n) ==
    IF n < 10 THEN <<DigitChars[n + 1]>>
    ELSE Decimal(n \div 10) \o <<DigitChars[(n % 10) + 1]>>

IsNumber(s) == s # <<>> /\ \A i \in 1..Len(s) : s[i] \in Digits

DigitValue(c) == (CHOOSE i \in 1..10 : DigitChars[i] = c) - 1

\* int(s) for a text of digits
RECURSIVE ParseInt(_)
ParseInt(s) ==
    IF s = <<>> THEN 0
    ELSE 10 * ParseInt(SubSeq(s, 1, Len(s) - 1)) + DigitValue(s[Len(s)])

\* '\n'.join(lines): what git log --pretty=format:%s prints.
RECURSIVE JoinLines(_)
JoinLines(lines) ==
    IF lines = <<>> THEN <<>>
    ELSE IF Len(lines) = 1 THEN lines[1]
    ELSE lines[1] \o <<"\n">> \o JoinLines(Tail(lines))

\* generic_words (line 230)
generic_words ==
    { <<"u","p","d","a","t","e">>, <<"d","o","n","e">>, <<"f","i","x">>,
      <<"w","i","p">>, <<"c","h","a","n","g","e">>,
      <<"c","o","m","m","i","t">>, <<"s","a","v","e">> }

\* The length from which a message is long enough (line 232).
MinMessageLength == 10

\* min_commits' default (line 194).
DefaultMinCommits == 3

\* is_descriptive with > for the >= of line 232.
is_descriptive_longer(msg) ==
    LET is_generic == strip(lower(msg)) \in generic_words
        is_long_enough == Len(strip(msg)) > MinMessageLength
    IN  is_long_enough /\ ~is_generic

\* Lines 229-234: the message counts as descriptive.
is_descriptive(msg) ==
    LET is_generic == strip(lower(msg)) \in generic_words
        is_long_enough == Len(strip(msg)) >= MinMessageLength
    IN  is_long_enough /\ ~is_generic

\* Lines 227-235.
RECURSIVE descriptive_count(_)
descriptive_count(msgs) ==
    IF msgs = <<>> THEN 0
    ELSE (IF is_descriptive(Head(msgs)) THEN 1 ELSE 0)
         + descriptive_count(Tail(msgs))

RECURSIVE Gcd(_, _)
Gcd(a, b) == IF b = 0 THEN a ELSE Gcd(b, a % b)

\* The number n / d, kept as the fraction in lowest terms; 0 is <<0, 1>>.
Quotient(n, d) == <<n \div Gcd(n, d), d \div Gcd(n, d)>>

\* Lines 237-243.
Analysis(count, msgs, min_commits) ==
    [commit_count |-> count,
     meets_minimum |-> count >= min_commits,
     descriptive_count |-> descriptive_count(msgs),
     descriptive_ratio |-> IF count > 0
                           THEN Quotient(descriptive_count(msgs), count)
                           ELSE <<0, 1>>,
     messages |-> msgs,
     error |-> ""]

\* Lines 246-253.
ZeroedAnalysis(error) ==
    [commit_count |-> 0, meets_minimum |-> FALSE, descriptive_count |-> 0,
     descriptive_ratio |-> <<0, 1>>, messages |-> <<>>, error |-> error]

\* subprocess.run(..., check=True) ends in one of these ways: the command
\* exits with 0, exits with another status (CalledProcessError), or cannot
\* be started because the executable or the working directory is absent
\* (FileNotFoundError).
NonZeroExit ==
    Raise("CalledProcessError", "Command returned non-zero exit status 128.")
NoGit == Raise("FileNotFoundError", "No such file or directory: 'git'")
NoDirectory == Raise("FileNotFoundError", "No such file or directory: cwd")
ValueError ==
    Raise("ValueError", "invalid literal for int() with base 10")

RunFailures == {NonZeroExit, NoGit, NoDirectory}

\* The except clause of line 245 takes CalledProcessError only.
Handled(e) == e.exc = "CalledProcessError"

\* Commit subject lines a repository's log is drawn from.
MsgFix == <<"f","i","x">>
MsgWip == <<"W","I","P"," ">>
MsgTen == Rep("x", MinMessageLength)
MsgNinePadded == <<" ">> \o Rep("x", MinMessageLength - 1) \o <<" ">>
MsgLong == <<"a","d","d","e","d"," ","s","p","h","e","r","e">>
MsgEmpty == <<>>

MessagePool == {MsgFix, MsgWip, MsgTen, MsgNinePadded, MsgLong, MsgEmpty}

\* A repository is the subject lines of the commits reachable from HEAD,
\* newest first; with no commit HEAD names nothing and git fails.
Repos == SeqUpTo(MessagePool, MaxCommits)

InitCommits ==
    /\ call \in [fn : {"analyze_commits"}, repo : Repos,
                 min_commits : {1, DefaultMinCommits}]
    /\ ret = NoRet
    /\ pc = "rev-list"
    /\ nb = NoRet
    /\ results = <<>>
    /\ qi = 0
    /\ commit_count = 0
    /\ messages = <<>>
    /\ run = NoRet

\* What the failure e of a query leads to: lines 245-253, or out of the
\* function.
Failed(e) == IF Handled(e) THEN Return(ZeroedAnalysis(e.msg)) ELSE e

\* Lines 207-214: git rev-list --count HEAD exits with 0 and prints the count.
RevListCounts ==
    /\ pc = "rev-list"
    /\ call.repo # <<>>
    /\ LET stdout == Decimal(Len(call.repo)) \o <<"\n">>
       IN  commit_count' = ParseInt(strip(stdout))
    /\ pc' = "log"
    /\ UNCHANGED <<call, ret, nb, results, qi, messages, run>>

\* Lines 207-214: the command exits with 0 and prints no number.
RevListGarbled ==
    /\ pc = "rev-list"
    /\ \E stdout \in {<<>>, <<"H", "E", "A", "D", "\n">>} :
           ~IsNumber(strip(stdout)) /\ ret' = Failed(ValueError)
    /\ pc' = "done"
    /\ UNCHANGED <<call, nb, results, qi, commit_count, messages, run>>

\* Lines 207-213: subprocess.run raises.
RevListFails ==
    /\ pc = "rev-list"
    /\ \E e \in RunFailures : ret' = Failed(e)
    /\ pc' = "done"
    /\ UNCHANGED <<call, nb, results, qi, commit_count, messages, run>>

\* Lines 217-224: git log exits with 0 and prints the subject lines.
LogLists ==
    /\ pc = "log"
    /\ LET stdout == JoinLines(call.repo)
       IN  messages' = SplitLines(strip(stdout))
    /\ pc' = "analyze"
    /\ UNCHANGED <<call, ret, nb, results, qi, commit_count, run>>

\* Lines 217-223: subprocess.run raises.
LogFails ==
    /\ pc = "log"
    /\ \E e \in RunFailures : ret' = Failed(e)
    /\ pc' = "done"
    /\ UNCHANGED <<call, nb, results, qi, commit_count, messages, run>>

\* Lines 226-243.
Analyze ==
    /\ pc = "analyze"
    /\ ret' = Return(Analysis(commit_count, messages, call.min_commits))
    /\ pc' = "done"
    /\ UNCHANGED <<call, nb, results, qi, commit_count, messages, run>>

NextCommits ==
    \/ RevListCounts
    \/ RevListGarbled
    \/ RevListFails
    \/ LogLists
    \/ LogFails
    \/ Analyze

SpecCommits == InitCommits /\ [][NextCommits]_vars

---------------------------------------------------------------------------
(* run_autograder (run_autograder.py, lines 16-79) with the configuration  *)
(* of assignment_config.py.                                                *)

ZeroDivisionError == Raise("ZeroDivisionError", "division by zero")

\* format(n / d * 100, '.0f'): the nearest integer, a tie going to the even
\* one.
Percent(n, d) ==
    LET twice == 200 * n
        q == twice \div (2 * d)
        r == twice % (2 * d)
    IN  IF r > d \/ (r = d /\ q % 2 = 1) THEN q + 1 ELSE q

\* The question lines of lines 372-376.
QuestionLines(questions) ==
    [k \in DOMAIN questions |->
        [status |-> IF questions[k].passed THEN "passed" ELSE "failed",
         q_id |-> k,
         score |-> questions[k].score,
         max_score |-> questions[k].max_score,
         feedback |-> questions[k].feedback]]

\* format_results_for_display (test_functions.py, lines 348-385): the text
\* as the parts it is joined from.
format_results_for_display(r) ==
    IF ~r.executed
    THEN Return([notebook |-> r.notebook,
                 failed |-> TRUE,
                 score |-> <<>>,
                 questions |-> <<>>,
                 errors |-> r.errors])
    ELSE IF r.max_score = 0
    THEN ZeroDivisionError
    ELSE Return([notebook |-> r.notebook,
                 failed |-> FALSE,
                 score |-> <<r.overall_score, r.max_score,
                             Percent(r.overall_score, r.max_score)>>,
                 questions |-> QuestionLines(r.questions),
                 errors |-> r.errors])

\* TEST_CONFIGS (assignment_config.py, lines 21-206): notebooks of essay
\* questions, of code and essay questions, and one without questions.
TEST_CONFIGS ==
    << [path |-> "00_intro.ipynb",
        questions |->
            << Question(AllKeys \ {"expected_outputs"}, "essay", 0,
                        AsList(<<>>), 3) >>],
       [path |-> "notes.ipynb", questions |-> <<>>],
       [path |-> "01_elements.ipynb",
        questions |->
            << Question(AllKeys, "code", 0, AsList(<<OutAB>>), 2),
               Question(AllKeys \ {"expected_outputs"}, "essay", 1,
                        AsList(<<>>), 2) >>] >>

HasQuestions(config) == config.questions # <<>>

\* assignment_config.py, lines 233-240
get_all_configured_notebooks == SelectSeq(TEST_CONFIGS, HasQuestions)

\* assignment_config.py, lines 220-230
get_notebook_config(notebook_path) ==
    IF \E i \in 1..Len(TEST_CONFIGS) : TEST_CONFIGS[i].path = notebook_path
    THEN (CHOOSE c \in { TEST_CONFIGS[i] : i \in 1..Len(TEST_CONFIGS) } :
              c.path = notebook_path).questions
    ELSE <<>>

\* Lines 19-22, before the loop of line 29.
InitialRun ==
    [pc |-> "for", i |-> 1, all_results |-> <<>>, total_score |-> 0,
     max_total_score |-> 0, stdout |-> <<>>, artifact |-> <<>>,
     status |-> NoRet]

InitRun ==
    /\ call = [fn |-> "run_autograder"]
    /\ ret = NoRet
    /\ pc = "call"
    /\ nb = NoRet
    /\ results = <<>>
    /\ qi = 0
    /\ commit_count = 0
    /\ messages = <<>>
    /\ run = InitialRun

\* Lines 29-34: the notebook is not in the repository.
RunSkips ==
    /\ run.pc = "for"
    /\ run.i <= Len(get_all_configured_notebooks)
    /\ LET notebook_path == get_all_configured_notebooks[run.i].path
       IN  run' = [run EXCEPT
                       !.i = @ + 1,
                       !.stdout = Append(@, [warning |-> notebook_path])]
    /\ UNCHANGED <<call, ret, pc, nb, results, qi, commit_count, messages>>

\* Lines 29-39: the notebook exists and test_notebook is called with its
\* configuration (test_functions.py, lines 267-274).
RunTests ==
    /\ run.pc = "for"
    /\ run.i <= Len(get_all_configured_notebooks)
    /\ LET notebook_path == get_all_configured_notebooks[run.i].path
       IN  /\ call' = [fn |-> "test_notebook",
                       notebook_path |-> notebook_path,
                       questions |-> get_notebook_config(notebook_path)]
           /\ results' = InitialResults(notebook_path)
           /\ run' = [run EXCEPT
                          !.pc = "testing",
                          !.stdout = Append(@, [testing |-> notebook_path])]
    /\ ret' = NoRet
    /\ pc' = "pending"
    /\ nb' = NoRet
    /\ qi' = 0
    /\ UNCHANGED <<commit_count, messages>>

\* Lines 39-46: test_notebook returned; an exception of the display leaves
\* run_autograder.
RunCollects ==
    /\ run.pc = "testing"
    /\ pc = "done"
    /\ LET display == format_results_for_display(ret.value)
       IN  IF display.kind = "raise"
           THEN run' = [run EXCEPT !.pc = "exit", !.status = display]
           ELSE run' = [run EXCEPT
                            !.pc = "for",
                            !.i = @ + 1,
                            !.stdout = Append(@, display.value),
                            !.all_results = Append(@, ret.value),
                            !.total_score = @ + ret.value.overall_score,
                            !.max_total_score = @ + ret.value.max_score]
    /\ UNCHANGED <<call, ret, pc, nb, results, qi, commit_count, messages>>

\* Lines 48-60: the summary; the division of line 52 is evaluated before
\* anything of the line is printed.
RunSummary ==
    /\ run.pc = "for"
    /\ run.i > Len(get_all_configured_notebooks)
    /\ IF run.max_total_score = 0
       THEN run' = [run EXCEPT !.pc = "exit", !.status = ZeroDivisionError]
       ELSE run' = [run EXCEPT
                        !.pc = "save",
                        !.stdout =
                            Append(@, [summary |->
                                <<run.total_score, run.max_total_score>>])]
    /\ UNCHANGED <<call, ret, pc, nb, results, qi, commit_count, messages>>

RECURSIVE Displays(_)
\* Lines 68-70.
Displays(all_results) ==
    IF all_results = <<>> THEN <<>>
    ELSE <<format_results_for_display(Head(all_results))>>
         \o Displays(Tail(all_results))

\* Lines 62-72: autograder_results.txt is opened for writing and written.
RunSaves ==
    /\ run.pc = "save"
    /\ run' = [run EXCEPT
                   !.pc = "return",
                   !.artifact =
                       Append(@, [score |-> <<run.total_score,
                                              run.max_total_score>>,
                                  results |-> Displays(run.all_results)]),
                   !.stdout = Append(@, [saved |-> TRUE])]
    /\ UNCHANGED <<call, ret, pc, nb, results, qi, commit_count, messages>>

\* Line 75.
RunReturns ==
    /\ run.pc = "return"
    /\ run' = [run EXCEPT
                   !.pc = "exit",
                   !.status = Return(IF run.all_results # <<>> THEN 0 ELSE 1)]
    /\ UNCHANGED <<call, ret, pc, nb, results, qi, commit_count, messages>>

\* Line 79: sys.exit with the value returned; the interpreter ends with
\* status 1 on an exception nobody caught.
ExitStatus(status) == IF status.kind = "raise" THEN 1 ELSE status.value

NextRun ==
    \/ RunSkips
    \/ RunTests
    \/ Execute
    \/ ExecuteReturns
    \/ ExecuteRaises
    \/ GradeNext
    \/ LoopEnds
    \/ ReturnResults
    \/ RunCollects
    \/ RunSummary
    \/ RunSaves
    \/ RunReturns

SpecRun == InitRun /\ [][NextRun]_vars

---------------------------------------------------------------------------
(* Properties of the matcher.                                              *)

\* str.split(): the maximal runs of non-whitespace characters, in order.
RECURSIVE WordPrefix(_)
WordPrefix(s) ==
    IF s = <<>> \/ Head(s) \in Whitespace THEN <<>>
    ELSE <<Head(s)>> \o WordPrefix(Tail(s))

RECURSIVE Words(_)
Words(s) ==
    IF s = <<>> THEN <<>>
    ELSE IF Head(s) \in Whitespace THEN Words(Tail(s))
         ELSE LET w == WordPrefix(s)
              IN  <<w>> \o Words(SubSeq(s, Len(w) + 1, Len(s)))

\* Two texts differ only in whitespace runs and letter case: they hold the
\* same words, letter case aside, and a whitespace run separates two words
\* in the one exactly where one does in the other.
SameUpToWhitespaceAndCase(a, e) ==
    LET wa == Words(a)
        we == Words(e)
    IN  /\ Len(wa) = Len(we)
        /\ \A i \in 1..Len(wa) : lower(wa[i]) = lower(we[i])

\* The text between the first and the last non-whitespace character.
Trimmed(s) ==
    LET I == {i \in 1..Len(s) : s[i] \notin Whitespace}
    IN  IF I = {} THEN <<>>
        ELSE SubSeq(s, CHOOSE i \in I : \A j \in I : i <= j,
                       CHOOSE i \in I : \A j \in I : j <= i)

\* C6: check_output_matches with flexible=True returns true exactly for the
\* pairs of texts that differ only in whitespace runs and letter case, and
\* with flexible=False exactly for the pairs whose trimmed texts are equal,
\* letter case included.
C6_MatcherNormalises ==
    (pc = "done" /\ call.fn = "check_output_matches") =>
        /\ ret.kind = "return"
        /\ ret.value = IF call.flexible
                       THEN SameUpToWhitespaceAndCase(call.actual, call.expected)
                       ELSE Trimmed(call.actual) = Trimmed(call.expected)

\* A flexible match of two different texts: another letter case, and a run
\* of two whitespace characters against a single space.
C6_Witness ==
    /\ pc = "done"
    /\ call.fn = "check_output_matches"
    /\ call.flexible
    /\ call.actual = <<"A", " ", "\n", "b">>
    /\ call.expected = <<"a", " ", "b">>
    /\ ret = Return(TRUE)

---------------------------------------------------------------------------
(* Properties of the Cell Extractor.                                       *)

\* C8: for every index outside 0..len(cells)-1, get_cell_source and
\* get_cell_output return the empty text without raising, and
\* get_cell_output returns the empty text for an in-range cell that is not a
\* code cell.
C8_OutOfRangeIsEmpty ==
    (pc = "done" /\ call.fn \in {"get_cell_source", "get_cell_output"}) =>
        /\ (call.cell_index < 0 \/ call.cell_index > Len(call.cells) - 1)
               => ret = Return(<<>>)
        /\ ( /\ call.fn = "get_cell_output"
             /\ call.cell_index \in 0..(Len(call.cells) - 1)
             /\ call.cells[call.cell_index + 1].cell_type # "code" )
               => ret = Return(<<>>)

---------------------------------------------------------------------------
(* Properties of the essay check.                                          *)

\* The four conditions of an answered essay, read off the notebook.
EssayAnswered(cells, cell_index, min_length) ==
    /\ cell_index \in 0..(Len(cells) - 1)
    /\ cells[cell_index + 1].cell_type = "markdown"
    /\ ~Contains(Placeholder, lower(Trimmed(cells[cell_index + 1].source)))
    /\ Len(Trimmed(cells[cell_index + 1].source)) >= min_length

\* C7: check_essay_answered reports answered=true exactly when the cell at
\* cell_index exists, is a markdown cell, its trimmed source does not hold
\* '< your answer >' in any letter case, and its trimmed source is at least
\* min_length long.
C7_EssayAnsweredIffFour ==
    (pc = "done" /\ call.fn = "check_essay_answered") =>
        /\ ret.kind = "return"
        /\ ret.value[1] =
               EssayAnswered(call.cells, call.cell_index, call.min_length)

---------------------------------------------------------------------------
(* Properties of test_notebook.                                            *)

\* The sum of the scores of the results a question map holds.
RECURSIVE SumScores(_)
SumScores(questions) ==
    IF DOMAIN questions = {} THEN 0
    ELSE LET k == CHOOSE k \in DOMAIN questions : TRUE
         IN  questions[k].score
             + SumScores([j \in DOMAIN questions \ {k} |-> questions[j]])

ScoresAddUp(r) ==
    /\ r.overall_score = SumScores(r.questions)
    /\ r.overall_score <= r.max_score

\* C1: overall_score equals the sum of the scores of the results in the
\* question map and never exceeds max_score, after every turn of the
\* question loop and in the result returned, also when an error cuts the
\* loop short.
C1_OverallScoreIsSum ==
    call.fn = "test_notebook" =>
        /\ ScoresAddUp(results)
        /\ ret.kind = "return" => ScoresAddUp(ret.value)

\* A question scored points, then the next one raised and ended the loop.
C1_Witness ==
    /\ call.fn = "test_notebook"
    /\ ret.kind = "return"
    /\ ret.value.errors # <<>>
    /\ ret.value.overall_score > 0
    /\ ret.value.overall_score < ret.value.max_score
    /\ DOMAIN ret.value.questions = {1}

\* C2: when execute_notebook raises, test_notebook returns a result with
\* executed false, no question, overall_score 0 and exactly one error.
C2_ExecutionFailureScoresNothing ==
    (call.fn = "test_notebook" /\ nb.kind = "raise") =>
        /\ results.executed = FALSE
        /\ DOMAIN results.questions = {}
        /\ results.overall_score = 0
        /\ Len(results.errors) = 1
        /\ pc = "done" => ret = Return(results)

\* A notebook with questions configured timed out and the result is back.
C2_Witness ==
    /\ call.fn = "test_notebook"
    /\ call.questions # <<>>
    /\ nb.kind = "raise"
    /\ pc = "done"
    /\ ret.kind = "return"
    /\ ret.value.errors = <<"Error executing nb.ipynb: timeout">>

\* The loop has taken up question i: it has graded it, or grading it raised.
Reached(i) ==
    /\ call.fn = "test_notebook"
    /\ nb.kind = "return"
    /\ i \in 1..Len(call.questions)
    /\ i < qi \/ (i = qi /\ pc \in {"return", "done"})

Recorded(i) == i \in DOMAIN results.questions

\* C3: whenever the notebook executed, every question of the configuration
\* ends with a result in the question map.
C3_EveryQuestionRecorded ==
    (call.fn = "test_notebook" /\ pc = "done" /\ ret.value.executed) =>
        DOMAIN ret.value.questions = 1..Len(call.questions)

\* The cell a configured index names: the one at that 0-based position.
CellExists(cells, cell_index) == cell_index \in 0..(Len(cells) - 1)

SourceAt(cells, cell_index) ==
    IF CellExists(cells, cell_index) THEN cells[cell_index + 1].source
    ELSE <<>>

OutputAt(cells, cell_index) ==
    IF CellExists(cells, cell_index)
       /\ cells[cell_index + 1].cell_type = "code"
    THEN Trimmed(join(OutputTexts(cells[cell_index + 1].outputs)))
    ELSE <<>>

IsCodeQuestion(q) ==
    /\ {"type", "cell_index"} \subseteq q.keys
    /\ q.type = "code"

PlaceholderFailure(i) ==
    /\ Recorded(i)
    /\ results.questions[i].score = 0
    /\ results.questions[i].passed = FALSE
    /\ results.questions[i].feedback =
           <<Feedback("Code still contains '...' placeholder", <<>>)>>

\* The output of the question's cell matches one of its expected outputs.
OutputIsExpected(cells, q) ==
    \E e \in 1..Len(ExpectedOutputsOf(q)) :
        SameUpToWhitespaceAndCase(OutputAt(cells, q.cell_index),
                                  ExpectedOutputsOf(q)[e])

C5_CodeScoreIffMatch ==
    \A i \in DOMAIN call.questions :
        ( /\ Reached(i)
          /\ IsCodeQuestion(call.questions[i])
          /\ CellExists(nb.value, call.questions[i].cell_index)
          /\ ~check_code_contains_ellipsis(
                 SourceAt(nb.value, call.questions[i].cell_index)) )
            => LET q == call.questions[i]
                   matches == OutputIsExpected(nb.value, q)
               IN  /\ Recorded(i)
                   /\ results.questions[i].passed = matches
                   /\ results.questions[i].score =
                          IF matches THEN PointsOf(q) ELSE 0

---------------------------------------------------------------------------
(* Properties of analyze_commits.                                          *)

\* analyze_commits is over and a query failed: messages was never bound
\* (split() returns no empty list).
QueryFailed ==
    call.fn = "analyze_commits" /\ pc = "done" /\ messages = <<>>

BothQueriesSucceeded ==
    call.fn = "analyze_commits" /\ pc = "done" /\ messages # <<>>

\* C9: when a version-control query fails, analyze_commits returns the
\* zeroed result with an error string and raises nothing.
C9_QueryFailureIsCaught ==
    QueryFailed =>
        /\ ret.kind = "return"
        /\ ret.value.error # ""
        /\ ret.value = ZeroedAnalysis(ret.value.error)

\* The subject lines of the repository that are descriptive.
DescriptiveSubjects(repo) ==
    {i \in 1..Len(repo) :
        /\ Len(Trimmed(repo[i])) >= 10
        /\ lower(Trimmed(repo[i])) \notin generic_words}

---------------------------------------------------------------------------
(* Properties of run_autograder.                                           *)

\* A notebook was graded: test_notebook executed it and went through its
\* questions.
SomeNotebookGraded ==
    \E k \in 1..Len(run.all_results) : run.all_results[k].executed

RunEnded == run.pc = "exit"

\* C11: whichever configured notebooks are missing, fail to execute or
\* execute, the run goes through all of them, writes the results artifact
\* exactly once, and ends with exit status 0 if at least one notebook was
\* graded and with a failure status otherwise.
C11_RunWritesOnceAndExits ==
    RunEnded =>
        /\ run.i > Len(get_all_configured_notebooks)
        /\ Len(run.artifact) = 1
        /\ (ExitStatus(run.status) = 0) <=> SomeNotebookGraded

---------------------------------------------------------------------------
(* Properties of a returned NotebookResult.                                *)

RECURSIVE SumPoints(_)
SumPoints(questions) ==
    IF questions = <<>> THEN 0
    ELSE PointsOf(Head(questions)) + SumPoints(Tail(questions))

ReturnedExecuted ==
    /\ pc = "done"
    /\ ret.kind = "return"
    /\ ret.value.executed

\* C12: in a NotebookResult returned for an executed notebook, max_score is
\* the sum of the points of all questions of the configuration, and every
\* QuestionResult has score 0 or the question's points, with passed true
\* exactly when the score is the question's points.
C12_MaxScoreAndScoreRange ==
    ReturnedExecuted =>
        /\ ret.value.max_score = SumPoints(call.questions)
        /\ \A k \in DOMAIN ret.value.questions :
               LET points == PointsOf(call.questions[k])
                   question_result == ret.value.questions[k]
               IN  /\ question_result.score \in {0, points}
                   /\ question_result.score >= 0
                   /\ question_result.score <= points
                   /\ question_result.passed
                          <=> (question_result.score = points)

---------------------------------------------------------------------------
(* The course of a call of test_notebook.                                  *)

ExecutorReturned == nb.kind = "return"

\* pending -> executing -> executed or failed, and nothing else.
StateMachineStep ==
    /\ pc = "pending" => pc' = "executing"
    /\ pc = "executing" =>
           \/ nb'.kind = "return" /\ results'.executed /\ pc' = "loop"
           \/ nb'.kind = "raise" /\ ~results'.executed /\ pc' = "return"
    /\ pc \in {"loop", "return", "done"} => nb' = nb

\* What the terminal state holds.
TerminalResult ==
    pc = "done" =>
        /\ ret.kind = "return"
        /\ ret.value.executed <=> ExecutorReturned
        /\ ret.value.executed =>
               DOMAIN ret.value.questions = 1..Len(call.questions)
        /\ ret.value.errors # <<>> => ~ExecutorReturned

\* Questions are taken once each, in configuration order.
QuestionsInOrder ==
    /\ qi' \in {qi, qi + 1}
    /\ results'.questions # results.questions =>
           /\ qi' = qi + 1
           /\ DOMAIN results'.questions = 1..qi

\* How far the call has come: every step of it moves on, and the terminal
\* state is the last position, so a call that keeps running reaches it.
Position ==
    CASE pc = "pending" -> 0
      [] pc = "executing" -> 1
      [] pc = "loop" -> 1 + qi
      [] pc = "return" -> 3 + Len(call.questions)
      [] pc = "done" -> 4 + Len(call.questions)

Advances ==
    /\ pc # "done"
    /\ pc' \in {"executing", "loop", "return", "done"}
    /\ Position' > Position

\* C13: a call of test_notebook goes pending -> executing -> exactly one of
\* executed and failed, always reaches a terminal state that returns a
\* NotebookResult and propagates no exception; executed is true exactly when
\* execute_notebook returned, every question is then processed once, in
\* configuration order, and errors is non-empty only in the failed state.
C13_StateMachine ==
    /\ [][StateMachineStep /\ QuestionsInOrder /\ Advances]_vars
    /\ []TerminalResult

=============================================================================
